---- MODULE Spec2Model ----
(***************************************************************************)
(* Model of src/agent_service_demo.py: main() of the browser automation    *)
(* demo.  main() is one sequential flow; the program counter pc sits at    *)
(* the next remote call, and one action is the code from one remote call   *)
(* up to (not including) the next one, prints and handlers included.       *)
(***************************************************************************)
EXTENDS Naturals, Sequences, FiniteSets

VARIABLES
    env,              \* os.environ restricted to the four settings main() reads
    env0,             \* history: the environment main() was started in
    pc,               \* position of main(): the remote call it is about to make
    client,           \* project_client: "none", "constructed", "entered", "closed"
    tracing_enabled,  \* local variable tracing_enabled
    calls,            \* history: remote calls issued, in order, with their result
    out,              \* stdout: the lines printed so far
    outcome,          \* how main() ended: "running", "returned", "raised"
    exc,              \* the exception that left main(), if any
    run,              \* local variable run (ThreadRun)
    run_steps,        \* local variable run_steps (listed RunStep sequence)
    response_message  \* local variable response_message

vars == <<env, env0, pc, client, tracing_enabled, calls, out, outcome, exc, run,
          run_steps, response_message>>

(***************************************************************************)
(* Bounds of the explored inputs.                                          *)
(***************************************************************************)
MaxNodes == 6     \* steps + tool calls + browser steps in one listed run
MaxTexts == 2     \* text segments of the agent's message
MaxCites == 2     \* URL citation annotations of the agent's message

(***************************************************************************)
(* Environment.                                                            *)
(***************************************************************************)
Unset == "<unset>"      \* os.getenv(var) is None

required_vars == <<"PROJECT_ENDPOINT", "AZURE_PLAYWRIGHT_CONNECTION_NAME",
                   "MODEL_DEPLOYMENT_NAME">>

RECORDING == "AZURE_TRACING_GEN_AI_CONTENT_RECORDING_ENABLED"

EnvVars == {required_vars[i] : i \in 1..Len(required_vars)} \cup {RECORDING}

RequiredValues == {Unset, "", "value"}
RecordingValues == {Unset, "", "true", "false"}

\* truthiness of os.getenv(var): None and "" are falsy
Truthy(v) == v # Unset /\ v # ""

\* a plausible slip: `os.getenv(var) is None` instead of `not os.getenv(var)`
MissingVarsNoneOnly(e) ==
    SelectSeq(required_vars, LAMBDA var : e[var] = Unset)

\* missing_vars = [var for var in required_vars if not os.getenv(var)]
MissingVars(e) ==
    SelectSeq(required_vars, LAMBDA var : ~Truthy(e[var]))

\* a plausible slip: the default is assigned unconditionally
ContentRecordingAlways(e) == [e EXCEPT ![RECORDING] = "true"]

\* if not os.getenv(RECORDING): os.environ[RECORDING] = "true"
ContentRecordingDefault(e) ==
    IF ~Truthy(e[RECORDING]) THEN [e EXCEPT ![RECORDING] = "true"] ELSE e

(***************************************************************************)
(* Exceptions.  A remote call returns or raises; what it raises is either  *)
(* an instance of Exception or of BaseException only (KeyboardInterrupt,   *)
(* raised when the user interrupts a blocking call).                       *)
(***************************************************************************)
ExcTypes == {"HttpResponseError", "KeyboardInterrupt"}

NoExc == [op |-> "", type |-> ""]

\* `except Exception` matches instances of Exception only
IsException(t) == t \in ExcTypes /\ t # "KeyboardInterrupt"

(***************************************************************************)
(* Printed lines: kind, number (0 when the line has none), two payloads.   *)
(***************************************************************************)
Line(k, n, v, w) == [k |-> k, n |-> n, v |-> v, w |-> w]
L0(k) == Line(k, 0, "", "")
L1(k, v) == Line(k, 0, v, "")

Kinds(S) == {S[i].k : i \in 1..Len(S)}
Count(S, k) == Cardinality({i \in 1..Len(S) : S[i].k = k})
OfKinds(S, K) == SelectSeq(S, LAMBDA l : l.k \in K)

RECURSIVE Concat(_)
Concat(ss) == IF ss = <<>> THEN <<>> ELSE Head(ss) \o Concat(Tail(ss))

SeqsUpTo(S, n) == UNION {[1..k -> S] : k \in 0..n}

(***************************************************************************)
(* Run steps as the service returns them.  step_details is either          *)
(* RunStepToolCallDetails ("tool_calls") or another variant; a tool call   *)
(* is either RunStepBrowserAutomationToolCall ("browser_automation") or    *)
(* another kind.  has_steps is hasattr(call.browser_automation, 'steps').  *)
(***************************************************************************)
BrowserStepVals ==
    { [last_step_result |-> "", current_state |-> "S1", next_step |-> "click"],
      [last_step_result |-> "clicked", current_state |-> "S2", next_step |-> "done"] }

OtherCall ==
    [type |-> "code_interpreter", input |-> "", output |-> "",
     has_steps |-> FALSE, steps |-> <<>>]

BrowserCall(has, steps) ==
    [type |-> "browser_automation", input |-> "I1", output |-> "O1",
     has_steps |-> has, steps |-> steps]

PlainStep(status) ==
    [status |-> status, type |-> "message_creation", tool_calls |-> <<>>]

ToolStep(status, tool_calls) ==
    [status |-> status, type |-> "tool_calls", tool_calls |-> tool_calls]

\* tool calls with k nodes: the call itself and its browser steps
CallsOfSize(k) ==
    IF k = 1
    THEN {OtherCall, BrowserCall(FALSE, <<>>), BrowserCall(TRUE, <<>>)}
    ELSE {BrowserCall(TRUE, bs) : bs \in [1..(k - 1) -> BrowserStepVals]}

RECURSIVE CallSeqsOfSize(_)
CallSeqsOfSize(n) ==
    IF n = 0 THEN {<<>>}
    ELSE UNION { {<<c>> \o r : c \in CallsOfSize(k), r \in CallSeqsOfSize(n - k)}
                 : k \in 1..n }

StepsOfSize(k) ==
    (IF k = 1 THEN {PlainStep("completed")} ELSE {})
    \cup {ToolStep("completed", cs) : cs \in CallSeqsOfSize(k - 1)}

RECURSIVE StepListsOfSize(_)
StepListsOfSize(n) ==
    IF n = 0 THEN {<<>>}
    ELSE UNION { {<<s>> \o r : s \in StepsOfSize(k), r \in StepListsOfSize(n - k)}
                 : k \in 1..n }

\* every step list of at most MaxNodes nodes
StepLists == UNION {StepListsOfSize(n) : n \in 0..MaxNodes}

\* the step lists main() is run against: none, one plain step, and the two
\* lists of the specification's test scenarios
SampleStepLists ==
    { <<>>,
      <<PlainStep("failed")>>,
      <<ToolStep("completed",
                 <<BrowserCall(TRUE,
                      <<[last_step_result |-> "", current_state |-> "S1",
                         next_step |-> "click"]>>)>>)>>,
      <<PlainStep("completed"),
        ToolStep("in_progress",
                 <<OtherCall,
                   BrowserCall(TRUE,
                      <<[last_step_result |-> "", current_state |-> "S1",
                         next_step |-> "click"],
                        [last_step_result |-> "clicked", current_state |-> "S2",
                         next_step |-> "done"]>>)>>)>> }

(***************************************************************************)
(* The agent's last message: found is FALSE when the lookup returns None.  *)
(***************************************************************************)
TextVals == {"T1", "T2"}
CitationVals == { [title |-> "Yahoo", url |-> "https://y"],
                  [title |-> "MSN", url |-> "https://m"] }

Message(found, texts, cites) ==
    [fetched |-> TRUE, found |-> found, text_messages |-> texts,
     url_citation_annotations |-> cites]

NotFetched ==
    [fetched |-> FALSE, found |-> FALSE, text_messages |-> <<>>,
     url_citation_annotations |-> <<>>]

NoMessage == Message(FALSE, <<>>, <<>>)

Messages ==
    {NoMessage} \cup
    {Message(TRUE, t, c) : t \in SeqsUpTo(TextVals, MaxTexts),
                           c \in SeqsUpTo(CitationVals, MaxCites)}

SampleMessages ==
    { NoMessage,
      Message(TRUE, <<"T1">>, <<>>),
      Message(TRUE, <<"T1", "T2">>,
              <<[title |-> "Yahoo", url |-> "https://y"],
                [title |-> "MSN", url |-> "https://m"]>>) }

(***************************************************************************)
(* Result Reporter: what the loops of lines 225-242 and 254-262 print.     *)
(***************************************************************************)
\* for i, browser_step in enumerate(call.browser_automation.steps, 1): ...
RECURSIVE PrintBrowserSteps(_, _)
PrintBrowserSteps(steps, i) ==
    IF i > Len(steps) THEN <<>>
    ELSE << Line("bstep_last", i, steps[i].last_step_result, ""),
            L1("bstep_state", steps[i].current_state),
            L1("bstep_next", steps[i].next_step) >>
         \o PrintBrowserSteps(steps, i + 1)

\* a plausible slip: the isinstance test on the tool call is dropped
PrintToolCallAnyKind(call) ==
    << L0("tool_call"), L1("input", call.input), L1("output", call.output) >>
    \o (IF call.has_steps /\ call.steps # <<>>
        THEN <<L0("bsteps_header")>> \o PrintBrowserSteps(call.steps, 1)
        ELSE <<>>)

\* body of `for call in tool_calls`
PrintToolCall(call) ==
    IF call.type = "browser_automation"
    THEN << L0("tool_call"), L1("input", call.input), L1("output", call.output) >>
         \o (IF call.has_steps /\ call.steps # <<>>
             THEN <<L0("bsteps_header")>> \o PrintBrowserSteps(call.steps, 1)
             ELSE <<>>)
    ELSE <<>>

RECURSIVE PrintToolCalls(_, _)
PrintToolCalls(tool_calls, j) ==
    IF j > Len(tool_calls) THEN <<>>
    ELSE PrintToolCall(tool_calls[j]) \o PrintToolCalls(tool_calls, j + 1)

\* for step_num, step in enumerate(run_steps, 1): ...
RECURSIVE PrintRunSteps(_, _)
PrintRunSteps(steps, step_num) ==
    IF step_num > Len(steps) THEN <<>>
    ELSE << Line("step", step_num, steps[step_num].status, "") >>
         \o (IF steps[step_num].type = "tool_calls"
             THEN PrintToolCalls(steps[step_num].tool_calls, 1)
             ELSE <<>>)
         \o PrintRunSteps(steps, step_num + 1)

PrintTexts(msg) ==
    [i \in 1..Len(msg.text_messages) |-> L1("text", msg.text_messages[i])]

PrintCitations(msg) ==
    [i \in 1..Len(msg.url_citation_annotations) |->
        Line("citation", 0, msg.url_citation_annotations[i].title,
             msg.url_citation_annotations[i].url)]

\* a plausible slip: the citations block is printed before the text loop
PrintResponseCitationsFirst(msg) ==
    IF msg.found
    THEN (IF msg.url_citation_annotations # <<>>
          THEN <<L0("citations_header")>> \o PrintCitations(msg)
          ELSE <<>>)
         \o PrintTexts(msg)
    ELSE <<>>

\* if response_message: ... (lines 254-262)
PrintResponse(msg) ==
    IF msg.found
    THEN PrintTexts(msg)
         \o (IF msg.url_citation_annotations # <<>>
             THEN <<L0("citations_header")>> \o PrintCitations(msg)
             ELSE <<>>)
    ELSE <<>>

(***************************************************************************)
(* Remote operations, in the order main() issues them.                     *)
(***************************************************************************)
OpOrder ==
    << "telemetry.get_application_insights_connection_string",
       "connections.get",
       "agents.create_agent",
       "agents.threads.create",
       "agents.messages.create",
       "agents.runs.create_and_process",
       "agents.run_steps.list",
       "agents.messages.get_last_message_by_role" >>

Telemetry == OpOrder[1]
SessionOps == {OpOrder[i] : i \in 2..Len(OpOrder)}

Results == {"ok"} \cup ExcTypes

Call(op, scope, result) == [op |-> op, scope |-> scope, result |-> result]

Ops(cs) == [i \in 1..Len(cs) |-> cs[i].op]

RunStatuses == {"completed", "failed", "cancelled", "expired"}
LastErrors == {"P1", "P2"}
NoRun == [created |-> FALSE, status |-> "", last_error |-> "none"]

ConnectionStrings == {"", "InstrumentationKey=k"}

\* a plausible slip: only "completed" lets the reporter run
RunFailedUnlessCompleted(status) == status # "completed"

\* a plausible slip: the status test is dropped
RunFailedNever(status) == FALSE

\* if run.status == "failed": (line 213)
RunFailed(status) == status = "failed"

\* a plausible slip: tracing_enabled = True is set before the exporter is configured
TracingEnabledEarly(cs, cfg, ins) == cs # ""

\* tracing_enabled after lines 92-125: True only once line 107 is reached
TracingEnabledAfter(cs, cfg, ins) == cs # "" /\ cfg = "ok" /\ ins = "ok"

\* a plausible slip: the handler re-raises without printing the guidance
ErrorReportSilent(t) == <<>>

\* except Exception as e: print error and troubleshooting (lines 282-288)
ErrorReport(t) ==
    IF IsException(t) THEN <<L1("error", t), L0("troubleshooting")>> ELSE <<>>

\* a plausible slip: the message is never posted before the run is started
NextPcSkipsMessage(p) ==
    CASE p = "connection" -> "create_agent"
      [] p = "create_agent" -> "create_thread"
      [] p = "create_thread" -> "run"
      [] p = "create_message" -> "run"
      [] p = "run" -> "list_steps"
      [] p = "list_steps" -> "last_message"
      [] p = "last_message" -> "exit"

\* the statement order of the with-block (lines 131-280)
NextPc(p) ==
    CASE p = "connection" -> "create_agent"
      [] p = "create_agent" -> "create_thread"
      [] p = "create_thread" -> "create_message"
      [] p = "create_message" -> "run"
      [] p = "run" -> "list_steps"
      [] p = "list_steps" -> "last_message"
      [] p = "last_message" -> "exit"

(***************************************************************************)
(* Actions.                                                                *)
(***************************************************************************)
\* lines 56-88: required settings, recording default, client construction
LoadConfig ==
    /\ pc = "start"
    /\ IF MissingVars(env) # <<>>
       THEN /\ out' = out \o <<L0("missing_header")>>
                          \o [i \in 1..Len(MissingVars(env)) |->
                                L1("missing_var", MissingVars(env)[i])]
                          \o <<L0("missing_help")>>
            /\ outcome' = "returned"
            /\ pc' = "exit"
            /\ UNCHANGED <<env, client, tracing_enabled>>
       ELSE /\ env' = ContentRecordingDefault(env)
            /\ out' = out \o (IF ~Truthy(env[RECORDING])
                              THEN <<L0("recording_enabled")>> ELSE <<>>)
                          \o <<L0("init_client"), L0("setup_tracing")>>
            /\ client' = "constructed"
            /\ tracing_enabled' = FALSE
            /\ outcome' = "running"
            /\ pc' = "tracing"
    /\ UNCHANGED <<env0, calls, exc, run, run_steps, response_message>>

\* lines 90-128: the try/except around the telemetry lookup, the exporter
\* configuration and the instrumentation hook
TracingBootstrap ==
    /\ pc = "tracing"
    /\ \E tel \in Results, cs \in ConnectionStrings, cfg \in Results, ins \in Results :
         /\ tel # "ok" => cs = ""
         /\ (tel # "ok" \/ cs = "") => cfg = "ok"
         /\ (tel # "ok" \/ cs = "" \/ cfg # "ok") => ins = "ok"
         /\ LET failure ==
                    IF tel # "ok" THEN [op |-> Telemetry, type |-> tel]
                    ELSE IF cfg # "ok" THEN [op |-> "configure_azure_monitor", type |-> cfg]
                    ELSE IF ins # "ok" THEN [op |-> "AIAgentsInstrumentor.instrument", type |-> ins]
                    ELSE NoExc
                found == IF tel = "ok" /\ cs # ""
                         THEN <<L0("found_insights"), L1("connection_string", cs)>>
                         ELSE <<>>
            IN  /\ calls' = Append(calls, Call(Telemetry, client, tel))
                /\ IF failure = NoExc
                   THEN /\ tracing_enabled' = TracingEnabledAfter(cs, cfg, ins)
                        /\ out' = out \o found
                                      \o (IF cs # "" THEN <<L0("tracing_on")>>
                                          ELSE <<L0("tracing_no_sink")>>)
                        /\ pc' = "connection"
                        /\ UNCHANGED <<outcome, exc>>
                   ELSE IF IsException(failure.type)
                   THEN /\ tracing_enabled' = TracingEnabledAfter(cs, cfg, ins)
                        /\ out' = out \o found \o <<L1("tracing_failed", failure.type)>>
                        /\ pc' = "connection"
                        /\ UNCHANGED <<outcome, exc>>
                   ELSE /\ out' = out \o found
                        /\ outcome' = "raised"
                        /\ exc' = failure
                        /\ pc' = "exit"
                        /\ tracing_enabled' = TracingEnabledAfter(cs, cfg, ins)
    /\ UNCHANGED <<env, env0, client, run, run_steps, response_message>>

\* an exception raised by a call inside `with project_client:`: the with-block
\* closes the client, `except Exception` reports, the exception leaves main()
Raised(op, t, before) ==
    /\ calls' = Append(calls, Call(op, "entered", t))
    /\ client' = "closed"
    /\ out' = out \o before \o ErrorReport(t)
    /\ exc' = [op |-> op, type |-> t]
    /\ outcome' = "raised"
    /\ pc' = "exit"
    /\ UNCHANGED <<env, env0, tracing_enabled, run, run_steps, response_message>>

\* a call that returns; main() goes on to the next statement
Returned(op, lines) ==
    /\ calls' = Append(calls, Call(op, "entered", "ok"))
    /\ client' = "entered"
    /\ out' = out \o lines
    /\ pc' = NextPc(pc)
    /\ UNCHANGED <<env, env0, tracing_enabled, outcome, exc>>

\* lines 131-139
GetConnection ==
    /\ pc = "connection"
    /\ \/ \E t \in ExcTypes : Raised(OpOrder[2], t, <<L0("retrieving")>>)
       \/ /\ Returned(OpOrder[2], <<L0("retrieving"), L0("connected")>>)
          /\ UNCHANGED <<run, run_steps, response_message>>

\* lines 141-159
CreateAgent ==
    /\ pc = "create_agent"
    /\ \/ \E t \in ExcTypes : Raised(OpOrder[3], t, <<L0("creating_agent")>>)
       \/ /\ Returned(OpOrder[3], <<L0("creating_agent"), L0("agent_created")>>)
          /\ UNCHANGED <<run, run_steps, response_message>>

\* lines 161-165
CreateThread ==
    /\ pc = "create_thread"
    /\ \/ \E t \in ExcTypes : Raised(OpOrder[4], t, <<L0("creating_thread")>>)
       \/ /\ Returned(OpOrder[4], <<L0("creating_thread"), L0("thread_created")>>)
          /\ UNCHANGED <<run, run_steps, response_message>>

\* lines 167-189
CreateMessage ==
    /\ pc = "create_message"
    /\ \/ \E t \in ExcTypes : Raised(OpOrder[5], t, <<L0("sending_task")>>)
       \/ /\ Returned(OpOrder[5], <<L0("sending_task"), L0("message_created")>>)
          /\ UNCHANGED <<run, run_steps, response_message>>

\* lines 191-215: create_and_process, then the test of run.status
CreateAndProcessRun ==
    /\ pc = "run"
    /\ \/ \E t \in ExcTypes : Raised(OpOrder[6], t, <<L0("agent_working")>>)
       \/ \E st \in RunStatuses :
            \E err \in (IF st = "failed" THEN LastErrors ELSE {"none"}) :
              /\ run' = [created |-> TRUE, status |-> st, last_error |-> err]
              /\ calls' = Append(calls, Call(OpOrder[6], "entered", "ok"))
              /\ IF RunFailed(st)
                 THEN /\ out' = out \o <<L0("agent_working"), L1("run_status", st),
                                         L1("run_failed", err)>>
                      /\ client' = "closed"
                      /\ outcome' = "returned"
                      /\ pc' = "exit"
                 ELSE /\ out' = out \o <<L0("agent_working"), L1("run_status", st)>>
                      /\ client' = "entered"
                      /\ outcome' = "running"
                      /\ pc' = NextPc(pc)
              /\ UNCHANGED <<env, env0, tracing_enabled, exc, run_steps, response_message>>

\* lines 217-242: run_steps.list and the loops over its result
ListRunStepsFrom(S) ==
    /\ pc = "list_steps"
    /\ \/ \E t \in ExcTypes : Raised(OpOrder[7], t, <<L0("steps_header")>>)
       \/ \E steps \in S :
            /\ run_steps' = steps
            /\ Returned(OpOrder[7], <<L0("steps_header")>> \o PrintRunSteps(steps, 1))
            /\ UNCHANGED <<run, response_message>>

\* lines 244-280: the final response and the closing banner
GetLastMessageFrom(S) ==
    /\ pc = "last_message"
    /\ \/ \E t \in ExcTypes : Raised(OpOrder[8], t, <<L0("response_header")>>)
       \/ \E msg \in S :
            /\ response_message' = msg
            /\ calls' = Append(calls, Call(OpOrder[8], "entered", "ok"))
            /\ out' = out \o <<L0("response_header")>> \o PrintResponse(msg)
                          \o <<L0("agent_preserved"), L0("success")>>
                          \o (IF tracing_enabled THEN <<L0("view_traces")>>
                              ELSE <<L0("tracing_not_enabled")>>)
            /\ client' = "closed"
            /\ outcome' = "returned"
            /\ pc' = NextPc(pc)
            /\ UNCHANGED <<env, env0, tracing_enabled, exc, run, run_steps>>

ListRunSteps == ListRunStepsFrom(SampleStepLists)
GetLastMessage == GetLastMessageFrom(SampleMessages)

(***************************************************************************)
(* main() from its first statement, in every environment.                  *)
(***************************************************************************)
Init ==
    /\ env \in [EnvVars -> RequiredValues \cup RecordingValues]
    /\ \A i \in 1..Len(required_vars) : env[required_vars[i]] \in RequiredValues
    /\ env[RECORDING] \in RecordingValues
    /\ env0 = env
    /\ pc = "start"
    /\ client = "none"
    /\ tracing_enabled = FALSE
    /\ calls = <<>>
    /\ out = <<>>
    /\ outcome = "running"
    /\ exc = NoExc
    /\ run = NoRun
    /\ run_steps = <<>>
    /\ response_message = NotFetched

Next ==
    \/ LoadConfig
    \/ TracingBootstrap
    \/ GetConnection
    \/ CreateAgent
    \/ CreateThread
    \/ CreateMessage
    \/ CreateAndProcessRun
    \/ ListRunSteps
    \/ GetLastMessage

Spec == Init /\ [][Next]_vars

(***************************************************************************)
(* The Result Reporter on every step list within the bounds: main() at     *)
(* line 217, after a run that did not fail.                                *)
(***************************************************************************)
AllSet == [v \in EnvVars |-> IF v = RECORDING THEN "true" ELSE "value"]

OutBeforeSteps(st) ==
    << L0("init_client"), L0("setup_tracing"), L0("tracing_no_sink"),
       L0("retrieving"), L0("connected"),
       L0("creating_agent"), L0("agent_created"),
       L0("creating_thread"), L0("thread_created"),
       L0("sending_task"), L0("message_created"),
       L0("agent_working"), L1("run_status", st) >>

CallsBefore(n) ==
    [i \in 1..n |-> Call(OpOrder[i], IF i = 1 THEN "constructed" ELSE "entered", "ok")]

AtRunStepsList ==
    /\ env = AllSet
    /\ env0 = AllSet
    /\ pc = "list_steps"
    /\ client = "entered"
    /\ tracing_enabled = FALSE
    /\ calls = CallsBefore(6)
    /\ \E st \in RunStatuses \ {"failed"} :
         /\ run = [created |-> TRUE, status |-> st, last_error |-> "none"]
         /\ out = OutBeforeSteps(st)
    /\ outcome = "running"
    /\ exc = NoExc
    /\ run_steps = <<>>
    /\ response_message = NotFetched

AtLastMessage ==
    /\ env = AllSet
    /\ env0 = AllSet
    /\ pc = "last_message"
    /\ client = "entered"
    /\ tracing_enabled = FALSE
    /\ calls = CallsBefore(7)
    /\ run_steps \in SampleStepLists
    /\ \E st \in RunStatuses \ {"failed"} :
         /\ run = [created |-> TRUE, status |-> st, last_error |-> "none"]
         /\ out = OutBeforeSteps(st) \o <<L0("steps_header")>>
                    \o PrintRunSteps(run_steps, 1)
    /\ outcome = "running"
    /\ exc = NoExc
    /\ response_message = NotFetched

NextRunSteps ==
    \/ ListRunStepsFrom(StepLists)
    \/ GetLastMessageFrom(SampleMessages)

SpecRunSteps == AtRunStepsList /\ [][NextRunSteps]_vars

NextResponse == GetLastMessageFrom(Messages)

SpecResponse == AtLastMessage /\ [][NextResponse]_vars

\* both entry states are states of main(): used to check the two
\* specifications above start where Spec can be
NotAtRunStepsList == ~AtRunStepsList
NotAtLastMessage == ~AtLastMessage

(***************************************************************************)
(* Properties.                                                             *)
(***************************************************************************)
RequiredSet == {required_vars[i] : i \in 1..Len(required_vars)}

\* the required settings absent or empty in environment e
Missing(e) == {v \in RequiredSet : e[v] = Unset \/ e[v] = ""}

ValuesOf(S, k) == {S[i].v : i \in {j \in 1..Len(S) : S[j].k = k}}

LastOp == IF calls = <<>> THEN "" ELSE calls[Len(calls)].op

ReporterKinds ==
    {"steps_header", "step", "tool_call", "input", "output", "bsteps_header",
     "bstep_last", "bstep_state", "bstep_next", "response_header", "text",
     "citations_header", "citation"}

\* C1: a remote call is made or a client constructed only when all three
\* required settings are present and non-empty; and when the set M of absent
\* or empty required settings is not empty, main() prints exactly the names
\* in M, once each, makes no remote call, constructs no client and returns
\* normally.
C1_MissingSettingsReported ==
    /\ (calls # <<>> \/ client # "none") =>
          \A v \in RequiredSet : env[v] # Unset /\ env[v] # ""
    /\ (pc # "start" /\ Missing(env0) # {}) =>
          /\ ValuesOf(out, "missing_var") = Missing(env0)
          /\ Count(out, "missing_var") = Cardinality(Missing(env0))
          /\ Count(out, "missing_header") = 1
          /\ calls = <<>>
          /\ client = "none"
          /\ outcome = "returned"
          /\ exc = NoExc
          /\ env = env0

C1_Witness ==
    /\ pc = "exit"
    /\ outcome = "returned"
    /\ env0["PROJECT_ENDPOINT"] = ""
    /\ env0["AZURE_PLAYWRIGHT_CONNECTION_NAME"] = "value"
    /\ env0["MODEL_DEPLOYMENT_NAME"] = Unset
    /\ Count(out, "missing_var") = 2

\* C2 as claimed: with all required settings present, the recording setting
\* is "true" after main() if it was unset before, and has its earlier value
\* if it was set to any value before, the empty string included.
C2_SetValueLeftUnchanged ==
    (pc # "start" /\ Missing(env0) = {}) =>
        env[RECORDING] = (IF env0[RECORDING] = Unset THEN "true" ELSE env0[RECORDING])

\* C2 as amended: with all required settings present, the recording setting
\* is "true" after main() if it was unset or empty before, and has its
\* earlier value if it was set to a non-empty value; no other setting
\* changes.
C2_RecordingDefault ==
    (pc # "start" /\ Missing(env0) = {}) =>
        /\ env[RECORDING] = (IF env0[RECORDING] = Unset \/ env0[RECORDING] = ""
                             THEN "true" ELSE env0[RECORDING])
        /\ \A v \in RequiredSet : env[v] = env0[v]

C2_Witness ==
    /\ pc = "exit"
    /\ outcome = "returned"
    /\ "success" \in Kinds(out)
    /\ env0[RECORDING] = "false"
    /\ env[RECORDING] = "false"

BootstrapOps ==
    {Telemetry, "configure_azure_monitor", "AIAgentsInstrumentor.instrument"}

ContinuedToSession ==
    \/ pc = "connection" /\ outcome = "running"
    \/ Len(calls) >= 2 /\ calls[2].op = OpOrder[2]

\* C3 as claimed: whatever the telemetry lookup, the exporter configuration
\* or the instrumentation hook raises, of any exception type, nothing leaves
\* the bootstrap, tracing_enabled is False and main() goes on to the
\* connection lookup.
C3_BootstrapNeverFatal ==
    ( \/ calls # <<>> /\ calls[1].result # "ok"
      \/ "tracing_failed" \in Kinds(out)
      \/ exc.op \in BootstrapOps ) =>
        /\ exc.op \notin BootstrapOps
        /\ tracing_enabled = FALSE
        /\ ContinuedToSession

\* C3 as amended: whatever instance of Exception the telemetry lookup, the
\* exporter configuration or the instrumentation hook raises, nothing leaves
\* the bootstrap, tracing_enabled is False and main() goes on to the
\* connection lookup.
C3_BootstrapCatchesException ==
    ( \/ calls # <<>> /\ calls[1].result \in ExcTypes \ {"KeyboardInterrupt"}
      \/ "tracing_failed" \in Kinds(out) ) =>
        /\ exc.op \notin BootstrapOps
        /\ tracing_enabled = FALSE
        /\ ContinuedToSession

C3_Witness ==
    /\ calls # <<>>
    /\ calls[1].result = "HttpResponseError"
    /\ "tracing_failed" \in Kinds(out)
    /\ LastOp = OpOrder[2]

\* C4: when create_and_process returns a run with status "failed" and last
\* error P, P is printed, neither run_steps.list nor get_last_message_by_role
\* is called, nothing of the Result Reporter and no success banner is
\* printed, and main() returns normally.
C4_FailedRunStops ==
    (run.created /\ run.status = "failed") =>
        /\ ValuesOf(out, "run_failed") = {run.last_error}
        /\ Count(out, "run_failed") = 1
        /\ LastOp = OpOrder[6]
        /\ Kinds(out) \cap ReporterKinds = {}
        /\ "success" \notin Kinds(out)
        /\ outcome = "returned"
        /\ exc = NoExc
        /\ pc = "exit"

C4_Witness ==
    /\ run.created
    /\ run.status = "failed"
    /\ run.last_error = "P2"
    /\ outcome = "returned"

\* C5: once constructed, the client is closed on every path by which main()
\* exits, and every remote call is made while the client's scope (the
\* with-block) is entered.
C5_ClientScoped ==
    /\ (pc = "exit" /\ client # "none") => client = "closed"
    /\ \A i \in 1..Len(calls) : calls[i].scope = "entered"

\* the first half of C5 alone: a constructed client is closed when main() exits
C5_ReleasedOnEveryExit ==
    (pc = "exit" /\ client # "none") => client = "closed"

\* C6: when a remote call made inside the client's scope raises an error (an
\* instance of Exception), it is the last remote call, the troubleshooting
\* guidance is printed exactly once, and that error leaves main().
C6_RemoteErrorReraised ==
    \A i \in 1..Len(calls) :
        (calls[i].op \in SessionOps /\ calls[i].result \in ExcTypes \ {"KeyboardInterrupt"}) =>
            /\ i = Len(calls)
            /\ Count(out, "troubleshooting") = 1
            /\ Count(out, "error") = 1
            /\ outcome = "raised"
            /\ exc = [op |-> calls[i].op, type |-> calls[i].result]
            /\ pc = "exit"

C6_Witness ==
    /\ outcome = "raised"
    /\ LastOp = OpOrder[5]
    /\ exc = [op |-> OpOrder[5], type |-> "HttpResponseError"]

StepsListed == Len(calls) >= 7 /\ calls[7].result = "ok"

ExpectedStatusLines(steps) ==
    [i \in 1..Len(steps) |-> Line("step", i, steps[i].status, "")]

\* the browser automation tool calls of the tool-call steps, in order
BrowserCallsOf(steps) ==
    Concat([i \in 1..Len(steps) |->
              IF steps[i].type = "tool_calls"
              THEN SelectSeq(steps[i].tool_calls,
                             LAMBDA c : c.type = "browser_automation")
              ELSE <<>>])

CallRecords(c) ==
    <<L1("input", c.input), L1("output", c.output)>>
    \o Concat([i \in 1..Len(c.steps) |->
                 << Line("bstep_last", i, c.steps[i].last_step_result, ""),
                    L1("bstep_state", c.steps[i].current_state),
                    L1("bstep_next", c.steps[i].next_step) >>])

ExpectedDetails(steps) ==
    Concat([j \in 1..Len(BrowserCallsOf(steps)) |->
              CallRecords(BrowserCallsOf(steps)[j])])

DetailKinds == {"input", "output", "bstep_last", "bstep_state", "bstep_next"}

\* C7: for a run that did not fail and any listed steps s_1..s_n, the
\* status lines printed are one per step, in order, numbered 1..n; and the
\* detail records printed are the in-order flattening of the browser
\* automation tool calls of the tool-call steps: input, output, then one
\* entry per browser step numbered from 1 within its call.  Other steps and
\* other tool calls add no detail and raise nothing.
C7_StepsReported ==
    StepsListed =>
        /\ OfKinds(out, {"step"}) = ExpectedStatusLines(run_steps)
        /\ OfKinds(out, DetailKinds) = ExpectedDetails(run_steps)
        /\ Count(out, "tool_call") = Len(BrowserCallsOf(run_steps))
        /\ exc.op # OpOrder[7]

C7_Witness ==
    /\ StepsListed
    /\ Len(run_steps) = 1
    /\ Len(run_steps[1].tool_calls) = 3
    /\ run_steps[1].tool_calls[1].type = "browser_automation"
    /\ Len(run_steps[1].tool_calls[1].steps) = 1
    /\ run_steps[1].tool_calls[2].type = "code_interpreter"
    /\ run_steps[1].tool_calls[3].type = "browser_automation"
    /\ Len(run_steps[1].tool_calls[3].steps) = 1
    /\ Count(out, "bstep_last") = 2

\* C8: after a run that did not fail, when the last-message lookup returns
\* nothing the response header is printed, no text or citation line is, no
\* exception is raised and main() ends normally with its success banner;
\* when a message is found, its text segments are printed in order before
\* any citation line, and citation lines are printed only when the message
\* has URL citation annotations.
C8_FinalResponse ==
    response_message.fetched =>
        /\ Count(out, "response_header") = 1
        /\ "success" \in Kinds(out)
        /\ outcome = "returned"
        /\ exc = NoExc
        /\ ~response_message.found =>
              OfKinds(out, {"text", "citations_header", "citation"}) = <<>>
        /\ response_message.found =>
              /\ OfKinds(out, {"text"}) =
                    [i \in 1..Len(response_message.text_messages) |->
                        L1("text", response_message.text_messages[i])]
              /\ \A i, j \in 1..Len(out) :
                    (out[i].k = "text" /\ out[j].k \in {"citations_header", "citation"})
                        => i < j
              /\ Count(out, "citation") = Len(response_message.url_citation_annotations)
              /\ (Count(out, "citations_header") = 1)
                    <=> (response_message.url_citation_annotations # <<>>)

C8_Witness ==
    /\ response_message.fetched
    /\ ~response_message.found
    /\ outcome = "returned"
    /\ Count(out, "response_header") = 1

\* C9: the remote calls main() has made are always an initial part of the
\* fixed order telemetry lookup, connection lookup, create agent, create
\* thread, create message, create-and-await run, run-step list,
\* last-message lookup (so each is made at most once, none is retried, and
\* nothing is cancelled or deleted), and every call of the Agent Session
\* before the last one made returned without error.
C9_CallOrder ==
    /\ Len(calls) <= Len(OpOrder)
    /\ Ops(calls) = SubSeq(OpOrder, 1, Len(calls))
    /\ \A i \in 1..Len(calls) :
          (i < Len(calls) /\ calls[i].op \in SessionOps) => calls[i].result = "ok"

C9_Witness ==
    /\ Len(calls) = Len(OpOrder)
    /\ outcome = "returned"

ReportingCompleted ==
    /\ run.created
    /\ run.status # "failed"
    /\ Len(calls) = 8
    /\ calls[8].result = "ok"

\* C10: only the status "failed" stops processing: after a run with any
\* other status the run-step list call is made, and when it and the
\* last-message lookup return, the success banner is printed and main()
\* returns.  main() returns normally exactly when a required setting was
\* missing, the run failed, or the reporting of a run that did not fail
\* completed; in every other case it ends with an exception.
C10_NormalReturnCases ==
    /\ (run.created /\ run.status # "failed") =>
          (pc = "list_steps" \/ (Len(calls) >= 7 /\ calls[7].op = OpOrder[7]))
    /\ ReportingCompleted => ("success" \in Kinds(out) /\ outcome = "returned")
    /\ (outcome = "returned") <=>
          /\ pc = "exit"
          /\ \/ Missing(env0) # {}
             \/ run.created /\ run.status = "failed"
             \/ ReportingCompleted
    /\ (pc = "exit" /\ outcome # "returned") => (outcome = "raised" /\ exc # NoExc)
    /\ (pc # "exit") => (outcome = "running" /\ exc = NoExc)

C10_Witness ==
    /\ outcome = "returned"
    /\ run.created
    /\ run.status = "cancelled"
    /\ "success" \in Kinds(out)

====
